---- MODULE Spec2Model ----
(***************************************************************************)
(* Model of backend/server.js: the Express application of the expense      *)
(* tracker.  The state is the Expense collection, the mongoose connection, *)
(* the process, the store operations in flight (one per suspended          *)
(* handler) and the last response written.                                 *)
(*                                                                         *)
(* Numbers are fixed point: the integer n stands for n/100, so that 3.5 is *)
(* 350.  Strings are sequences of one-character strings; an origin is a    *)
(* sequence of lexical tokens (scheme, label, dot, port).                  *)
(***************************************************************************)
EXTENDS Integers, Sequences, FiniteSets, Bags, TLC

(* ------------------------------ bounds --------------------------------- *)

\* documents the Expense collection may hold
MaxExpenses == 2
\* handlers suspended on a store operation at the same time
MaxInflight == 2
\* values Date.now() ranges over
MaxDate == 2

(* --------------------------- JSON / JS values -------------------------- *)

Undef == [t |-> "undef", n |-> 0, s |-> <<>>]
Null == [t |-> "null", n |-> 0, s |-> <<>>]
NaN == [t |-> "nan", n |-> 0, s |-> <<>>]
Num(k) == [t |-> "num", n |-> k, s |-> <<>>]
Str(cs) == [t |-> "str", n |-> 0, s |-> cs]

\* JavaScript ToBoolean, as used by the ! operator
Truthy(v) ==
    CASE v.t = "undef" -> FALSE
      [] v.t = "null" -> FALSE
      [] v.t = "nan" -> FALSE
      [] v.t = "num" -> v.n # 0
      [] v.t = "str" -> v.s # <<>>

Digits == {"0", "1", "2", "3", "4", "5", "6", "7", "8", "9"}

DigitVal(c) ==
    CASE c = "0" -> 0 [] c = "1" -> 1 [] c = "2" -> 2 [] c = "3" -> 3
      [] c = "4" -> 4 [] c = "5" -> 5 [] c = "6" -> 6 [] c = "7" -> 7
      [] c = "8" -> 8 [] c = "9" -> 9

RECURSIVE TrimLeft(_)
TrimLeft(cs) ==
    IF cs # <<>> /\ Head(cs) = " " THEN TrimLeft(Tail(cs)) ELSE cs

RECURSIVE TrimRight(_)
TrimRight(cs) ==
    IF cs # <<>> /\ cs[Len(cs)] = " "
    THEN TrimRight(SubSeq(cs, 1, Len(cs) - 1))
    ELSE cs

AllDigits(cs) == \A i \in 1..Len(cs) : cs[i] \in Digits

RECURSIVE IntVal(_)
IntVal(cs) ==
    IF cs = <<>> THEN 0
    ELSE 10 * IntVal(SubSeq(cs, 1, Len(cs) - 1)) + DigitVal(cs[Len(cs)])

\* the fraction digits as hundredths (the model's precision is two digits)
FracVal(cs) ==
    (IF Len(cs) >= 1 THEN 10 * DigitVal(cs[1]) ELSE 0)
    + (IF Len(cs) >= 2 THEN DigitVal(cs[2]) ELSE 0)

\* position of the first "." of cs, or Len(cs) + 1
RECURSIVE DotAt(_, _)
DotAt(cs, i) ==
    IF i > Len(cs) \/ cs[i] = "." THEN i ELSE DotAt(cs, i + 1)

\* an unsigned decimal literal: digits, digits "." digits*, "." digits+
UnsignedToNumber(cs) ==
    LET d == DotAt(cs, 1)
        ip == SubSeq(cs, 1, d - 1)
        fp == SubSeq(cs, d + 1, Len(cs))
    IN IF AllDigits(ip) /\ AllDigits(fp) /\ Len(ip) + Len(fp) >= 1
       THEN Num(100 * IntVal(ip) + FracVal(fp))
       ELSE NaN

\* JavaScript StringToNumber on decimal literals: white space is trimmed,
\* the empty string is 0, a sign may lead, anything else is NaN
StringToNumber(cs) ==
    LET t == TrimRight(TrimLeft(cs))
    IN IF t = <<>> THEN Num(0)
       ELSE IF Head(t) = "-"
            THEN LET u == UnsignedToNumber(Tail(t))
                 IN IF u.t = "num" THEN Num(0 - u.n) ELSE NaN
            ELSE IF Head(t) = "+" THEN UnsignedToNumber(Tail(t))
            ELSE UnsignedToNumber(t)

\* Number(amount) of the POST handler
ToNumber(v) ==
    CASE v.t = "undef" -> NaN
      [] v.t = "null" -> Num(0)
      [] v.t = "nan" -> NaN
      [] v.t = "num" -> v
      [] v.t = "str" -> StringToNumber(v.s)

(* ------------------------ cross-origin policy -------------------------- *)

\* an Origin header: absent, or a string made of lexical tokens
NoOrigin == [present |-> FALSE, toks |-> <<>>]
Origin(toks) == [present |-> TRUE, toks |-> toks]

ALLOWED_ORIGINS ==
    { <<"https://", "mern-endterm", ".", "vercel", ".", "app">>,
      <<"https://", "mern-endterm-czx9", ".", "vercel", ".", "app">>,
      <<"https://", "mern-endterm2", ".", "onrender", ".", "com">>,
      <<"http://", "localhost", ":3000">> }

\* String.prototype.endsWith
EndsWith(str, suffix) ==
    /\ Len(str) >= Len(suffix)
    /\ SubSeq(str, Len(str) - Len(suffix) + 1, Len(str)) = suffix

NoError == <<>>

CorsMessage(toks) ==
    <<"Origin ">> \o toks \o <<" is not allowed by the server's CORS policy.">>

\* the allow-list test with the second deployment domain forgotten
OriginAcceptedVercelOnly(toks) ==
    \/ toks \in ALLOWED_ORIGINS
    \/ EndsWith(toks, <<".", "vercel", ".", "app">>)

\* the condition of the if at line 31
OriginAccepted(toks) ==
    \/ toks \in ALLOWED_ORIGINS
    \/ EndsWith(toks, <<".", "vercel", ".", "app">>)
    \/ EndsWith(toks, <<".", "onrender", ".", "com">>)

\* the origin function handed to cors(): the arguments of callback(err, allow)
OriginCallback(origin) ==
    IF ~origin.present \/ origin.toks = <<>>
    THEN [err |-> NoError, allow |-> TRUE]
    ELSE IF OriginAccepted(origin.toks)
         THEN [err |-> NoError, allow |-> TRUE]
         ELSE [err |-> CorsMessage(origin.toks), allow |-> FALSE]

(* ------------------------------ identity ------------------------------- *)

Users == {"A", "B"}
NoUser == "-"

\* a bearer token: absent, or a credential naming a user, whose signature
\* and expiry the Token Service checks
NoToken == [present |-> FALSE, sub |-> NoUser, signed |-> FALSE, expired |-> FALSE]
Token(u, sg, ex) == [present |-> TRUE, sub |-> u, signed |-> sg, expired |-> ex]

\* Token Service verify: signature integrity and expiry
Verify(tok) == tok.present /\ tok.signed /\ ~tok.expired

\* the Auth Gate: the identity attached to the request, or a 401
Auth(tok) ==
    IF Verify(tok)
    THEN [ok |-> TRUE, user |-> tok.sub]
    ELSE [ok |-> FALSE, user |-> NoUser]

(* --------------------------- Expense model ----------------------------- *)

NoBody == [description |-> Undef, amount |-> Undef, user |-> NoUser]

\* schema validation run by save(): user, description and amount are
\* required, and amount must cast to a Number (NaN does not)
ValidDocNoCast(doc) ==
    /\ doc.user # NoUser
    /\ doc.description.t = "str" /\ doc.description.s # <<>>

ValidDoc(doc) ==
    /\ doc.user # NoUser
    /\ doc.description.t = "str" /\ doc.description.s # <<>>
    /\ doc.amount.t = "num"

\* !description || !amount
MissingFields(body) == ~Truthy(body.description) \/ ~Truthy(body.amount)

\* the document with the owner taken from the request body when it has one
NewExpenseOwnerFromBody(user, body, now) ==
    [id |-> 0,
     user |-> IF body.user # NoUser THEN body.user ELSE user,
     description |-> body.description,
     amount |-> ToNumber(body.amount),
     date |-> now]

\* new Expense({ user: req.user.id, description, amount: Number(amount) }),
\* date defaulting to Date.now
NewExpense(user, body, now) ==
    [id |-> 0,
     user |-> user,
     description |-> body.description,
     amount |-> ToNumber(body.amount),
     date |-> now]

NoDoc == [id |-> 0, user |-> NoUser, description |-> Undef, amount |-> Undef, date |-> 0]

\* the documents of the collection, in no particular order
Docs(st) == {st[i] : i \in 1..Len(st)}

\* the filter of the list query with the owner condition left out
MatchingAny(st, user) == Docs(st)

\* Expense.find({ user: req.user.id })
Matching(st, user) == {e \in Docs(st) : e.user = user}

\* the sort with the direction inverted: { date: 1 }
InSortOrderAscending(q) == \A i \in 1..(Len(q) - 1) : q[i].date <= q[i + 1].date

\* .sort({ date: -1 }): what holds of the sequence the query returns
InSortOrder(q) == \A i \in 1..(Len(q) - 1) : q[i].date >= q[i + 1].date

\* the sequences that list every element of S once
Orderings(S) ==
    {q \in [1..Cardinality(S) -> S] : \A i, j \in 1..Cardinality(S) : q[i] = q[j] => i = j}

\* the results find(...).sort(...) may resolve to: the store fixes no order
\* among documents of equal date
FindResults(st, user) == {q \in Orderings(Matching(st, user)) : InSortOrder(q)}

\* an insert that replaces the owner's latest document (an upsert)
InsertReplacing(st, doc) ==
    IF \E i \in 1..Len(st) : st[i].user = doc.user
    THEN LET i == CHOOSE k \in 1..Len(st) : st[k].user = doc.user
         IN [st EXCEPT ![i] = [doc EXCEPT !.id = st[i].id]]
    ELSE Append(st, [doc EXCEPT !.id = Len(st) + 1])

\* the insert save() performs; the _id is unique in the collection
Insert(st, doc) == Append(st, [doc EXCEPT !.id = Len(st) + 1])

(* ------------------------------ routes --------------------------------- *)

Routes == {"GET /", "GET /expenses", "POST /expenses"}

\* the expense routes registered without the auth middleware
ChainWithoutAuth(route) == <<"handler">>

\* the middleware chain each route is registered with
Chain(route) ==
    IF route \in {"GET /expenses", "POST /expenses"}
    THEN <<"auth", "handler">>
    ELSE <<"handler">>

HasAuth(route) == \E i \in 1..Len(Chain(route)) : Chain(route)[i] = "auth"

\* the outcome of the chain up to the handler: whether the gate ran, whether
\* the handler is entered, and the identity in req.user
Gate(route, tok) ==
    IF HasAuth(route)
    THEN [ran |-> TRUE, ok |-> Auth(tok).ok, user |-> Auth(tok).user]
    ELSE [ran |-> FALSE, ok |-> TRUE, user |-> NoUser]

(* ------------------------------- state --------------------------------- *)

VARIABLES
    store,      \* the Expense collection, in insertion order
    reachable,  \* whether the database at MONGO_URI can be reached
    conn,       \* mongoose connection: "connecting", "connected", "failed"
    proc,       \* the process: "running" (listening) or "exited"
    pending,    \* the bag of store operations the suspended handlers await
    resp,       \* the last response written
    corsReq,    \* the origin handed to the origin function
    corsRes     \* what the origin function passed to its callback

vars == <<store, reachable, conn, proc, pending, resp, corsReq, corsRes>>

Dates == 1..MaxDate

NoResp ==
    [route |-> "-", status |-> 0, err |-> "none", gate |-> "none",
     entered |-> FALSE, token |-> NoToken, user |-> NoUser, body |-> NoBody,
     items |-> <<>>]

NoDecision == [err |-> NoError, allow |-> FALSE]

Init ==
    /\ store = <<>>
    /\ reachable \in BOOLEAN
    /\ conn = "connecting"
    /\ proc = "running"
    /\ pending = EmptyBag
    /\ resp = NoResp
    /\ corsReq = NoOrigin
    /\ corsRes = NoDecision

(* --------------------------- connection -------------------------------- *)

\* mongoose.connect(...).then: the connection is established
Connected ==
    /\ proc = "running" /\ conn = "connecting" /\ reachable
    /\ conn' = "connected"
    /\ UNCHANGED <<store, reachable, proc, pending, resp, corsReq, corsRes>>

\* a catch that logs the error and lets the process run on
ConnectErrorLogged ==
    /\ proc = "running" /\ conn = "connecting" /\ ~reachable
    /\ conn' = "failed"
    /\ UNCHANGED <<store, reachable, proc, pending, resp, corsReq, corsRes>>

\* mongoose.connect(...).catch: log, then process.exit(1); the suspended
\* handlers die with the process
ConnectError ==
    /\ proc = "running" /\ conn = "connecting" /\ ~reachable
    /\ conn' = "failed"
    /\ proc' = "exited"
    /\ pending' = EmptyBag
    /\ UNCHANGED <<store, reachable, resp, corsReq, corsRes>>

(* ---------------------------- requests --------------------------------- *)

\* the request passed the cors middleware of a listening process
Admitted(r) == proc = "running" /\ OriginCallback(r.origin).allow

GateField(g) == IF g.ran THEN "passed" ELSE "none"

\* the handler suspends on a store operation
Await(op, r, g, doc) ==
    pending' = pending (+) SetToBag({
        [op |-> op, user |-> g.user, doc |-> doc, body |-> r.body,
         gate |-> GateField(g), token |-> r.token]})

\* cors: callback(new Error(msg), false) ends the request in Express's
\* error handler
CorsRejected(r) ==
    /\ proc = "running" /\ ~OriginCallback(r.origin).allow
    /\ resp' = [NoResp EXCEPT !.route = r.route, !.status = 500, !.err = "cors"]
    /\ UNCHANGED <<store, reachable, conn, proc, pending, corsReq, corsRes>>

\* app.get('/')
Health(r) ==
    /\ Admitted(r) /\ r.route = "GET /"
    /\ resp' = [NoResp EXCEPT !.route = r.route, !.status = 200, !.entered = TRUE]
    /\ UNCHANGED <<store, reachable, conn, proc, pending, corsReq, corsRes>>

\* the Auth Gate ends the request
Unauthorized(r) ==
    /\ Admitted(r)
    /\ Gate(r.route, r.token).ran /\ ~Gate(r.route, r.token).ok
    /\ resp' = [NoResp EXCEPT !.route = r.route, !.status = 401,
                              !.err = "unauthorized", !.gate = "rejected",
                              !.token = r.token]
    /\ UNCHANGED <<store, reachable, conn, proc, pending, corsReq, corsRes>>

\* app.get('/expenses') up to its await: the query is issued
ListExpenses(r, K) ==
    LET g == Gate(r.route, r.token) IN
    /\ Admitted(r) /\ r.route = "GET /expenses" /\ g.ok
    /\ BagCardinality(pending) < K
    /\ Await("find", r, g, NoDoc)
    /\ UNCHANGED <<store, reachable, conn, proc, resp, corsReq, corsRes>>

\* app.post('/expenses'): the early return of line 98
CreateRequired(r) ==
    LET g == Gate(r.route, r.token) IN
    /\ Admitted(r) /\ r.route = "POST /expenses" /\ g.ok
    /\ MissingFields(r.body)
    /\ resp' = [NoResp EXCEPT !.route = r.route, !.status = 400,
                              !.err = "required", !.gate = GateField(g),
                              !.entered = TRUE, !.token = r.token,
                              !.user = g.user, !.body = r.body]
    /\ UNCHANGED <<store, reachable, conn, proc, pending, corsReq, corsRes>>

\* app.post('/expenses'): save() rejects with the schema's validation
\* error before anything is sent to the store, and the catch answers 400
CreateInvalid(r, now) ==
    LET g == Gate(r.route, r.token) IN
    /\ Admitted(r) /\ r.route = "POST /expenses" /\ g.ok
    /\ ~MissingFields(r.body)
    /\ ~ValidDoc(NewExpense(g.user, r.body, now))
    /\ resp' = [NoResp EXCEPT !.route = r.route, !.status = 400,
                              !.err = "validation", !.gate = GateField(g),
                              !.entered = TRUE, !.token = r.token,
                              !.user = g.user, !.body = r.body]
    /\ UNCHANGED <<store, reachable, conn, proc, pending, corsReq, corsRes>>

\* app.post('/expenses') up to its await: the document is built and the
\* insert is issued
CreateExpense(r, now, K) ==
    LET g == Gate(r.route, r.token) IN
    /\ Admitted(r) /\ r.route = "POST /expenses" /\ g.ok
    /\ ~MissingFields(r.body)
    /\ ValidDoc(NewExpense(g.user, r.body, now))
    /\ BagCardinality(pending) < K
    /\ Await("save", r, g, NewExpense(g.user, r.body, now))
    /\ UNCHANGED <<store, reachable, conn, proc, resp, corsReq, corsRes>>

(* ------------------------ store completions ---------------------------- *)

Answer(p, status, err, items) ==
    [route |-> IF p.op = "find" THEN "GET /expenses" ELSE "POST /expenses",
     status |-> status, err |-> err, gate |-> p.gate, entered |-> TRUE,
     token |-> p.token, user |-> p.user, body |-> p.body, items |-> items]

Resume(p) == pending' = pending (-) SetToBag({p})

\* the query resolves: res.status(200).json(expenses)
FindResolves(p) ==
    /\ proc = "running" /\ conn = "connected"
    /\ p.op = "find"
    /\ \E q \in FindResults(store, p.user) : resp' = Answer(p, 200, "none", q)
    /\ Resume(p)
    /\ UNCHANGED <<store, reachable, conn, proc, corsReq, corsRes>>

\* the query rejects: res.status(500).json({ message })
FindRejects(p) ==
    /\ proc = "running"
    /\ p.op = "find"
    /\ resp' = Answer(p, 500, "persistence", <<>>)
    /\ Resume(p)
    /\ UNCHANGED <<store, reachable, conn, proc, corsReq, corsRes>>

\* the insert resolves: res.status(201).json(savedExpense)
SaveResolves(p) ==
    /\ proc = "running" /\ conn = "connected"
    /\ p.op = "save"
    /\ Len(store) < MaxExpenses
    /\ store' = Insert(store, p.doc)
    /\ resp' = Answer(p, 201, "none", <<store'[Len(store')]>>)
    /\ Resume(p)
    /\ UNCHANGED <<reachable, conn, proc, corsReq, corsRes>>

\* the insert rejects: the catch of line 108 answers 400
SaveRejects(p) ==
    /\ proc = "running"
    /\ p.op = "save"
    /\ resp' = Answer(p, 400, "persistence", <<>>)
    /\ Resume(p)
    /\ UNCHANGED <<store, reachable, conn, proc, corsReq, corsRes>>

(* ----------------------------- inputs ---------------------------------- *)

Coffee == Str(<<"c", "o", "f", "f", "e", "e">>)
ThreeFifty == Str(<<"3", ".", "5", "0">>)

Localhost == Origin(<<"http://", "localhost", ":3000">>)
Elsewhere == Origin(<<"https://", "evil", ".", "com">>)

\* absent, forged, expired, and a live token of each user
Tokens ==
    {NoToken, Token("A", FALSE, FALSE), Token("A", TRUE, TRUE),
     Token("A", TRUE, FALSE), Token("B", TRUE, FALSE)}

LiveTokens == {tok \in Tokens : Verify(tok)}

Request(route, origin, tok, body) ==
    [route |-> route, origin |-> origin, token |-> tok, body |-> body]

\* requests of every route from every kind of origin and with every kind
\* of token; the bodies are a complete one and an empty one
Requests ==
    {Request(rt, o, NoToken, NoBody) : rt \in Routes, o \in {Localhost, Elsewhere}}
    \cup {Request(rt, NoOrigin, tok, NoBody) : rt \in Routes, tok \in Tokens}
    \cup {Request("POST /expenses", NoOrigin, tok,
                  [description |-> Coffee, amount |-> ThreeFifty, user |-> NoUser]) :
              tok \in Tokens}
    \cup {Request("POST /expenses", NoOrigin, tok,
                  [description |-> Coffee, amount |-> Str(<<"a", "b", "c">>),
                   user |-> NoUser]) :
              tok \in LiveTokens}

\* one request, from its arrival to its response or its await
Serve(r, D, K) ==
    \/ CorsRejected(r)
    \/ Health(r)
    \/ Unauthorized(r)
    \/ ListExpenses(r, K)
    \/ CreateRequired(r)
    \/ \E now \in D : CreateInvalid(r, now)
    \/ \E now \in D : CreateExpense(r, now, K)

\* the callbacks the event loop runs for the connection and the store
Callbacks ==
    \/ Connected
    \/ ConnectError
    \/ \E p \in BagToSet(pending) : FindResolves(p)
    \/ \E p \in BagToSet(pending) : FindRejects(p)
    \/ \E p \in BagToSet(pending) : SaveResolves(p)
    \/ \E p \in BagToSet(pending) : SaveRejects(p)

Next ==
    \/ \E r \in Requests : Serve(r, Dates, MaxInflight)
    \/ Callbacks

Spec == Init /\ [][Next]_vars

(* ------------------- create requests, one at a time -------------------- *)

\* the amounts a client may send: absent, null, numbers (in hundredths) and
\* strings, numeric and not
Amounts ==
    {Undef, Null, Num(0), Num(350), Num(-200),
     ThreeFifty, Str(<<"3", ".", "5">>), Str(<<" ", "3", ".", "5", " ">>),
     Str(<<"+", "3", ".", "5", "0">>), Str(<<"0">>), Str(<<"-", "2">>),
     Str(<<"-", "2", ".">>), Str(<<" ">>), Str(<<>>),
     Str(<<"a", "b", "c">>), Str(<<"3", ".", "5", "x">>), Str(<<"-">>),
     Str(<<".">>)}

\* a description with every amount, a missing and an empty description
\* with amounts of each kind, and bodies that also name a user
Bodies ==
    [description : {Coffee}, amount : Amounts, user : {NoUser}]
    \cup [description : {Undef, Str(<<>>)},
          amount : {Undef, ThreeFifty, Str(<<"a", "b", "c">>)},
          user : {NoUser}]
    \cup [description : {Coffee},
          amount : {Undef, ThreeFifty, Str(<<"a", "b", "c">>)},
          user : {"A", "B"}]

\* user A's create requests with every body, A's list request, and one
\* request per way of not reaching a handler
CreateRequests ==
    {Request(rt, o, NoToken, NoBody) : rt \in Routes, o \in {NoOrigin, Elsewhere}}
    \cup {Request("GET /expenses", NoOrigin, Token("A", TRUE, FALSE), NoBody)}
    \cup {Request("POST /expenses", NoOrigin, Token("A", TRUE, FALSE), b) : b \in Bodies}

CreateNext ==
    \/ \E r \in CreateRequests : Serve(r, {1}, 1)
    \/ Callbacks

CreateSpec == Init /\ [][CreateNext]_vars

(* ------------------------- startup, with fairness ---------------------- *)

\* the connection attempt to an unreachable database ends (the driver's
\* server selection times out) and the event loop runs the catch callback
FairSpec == Init /\ [][Next]_vars /\ WF_vars(ConnectError)

(* --------------------- the origin function alone ----------------------- *)

\* labels a host is made of
MaxLabels == 3

Labels == {"x", "vercel", "app", "onrender", "com", "localhost"}
Schemes == {"https://", "http://"}
Ports == {":3000", ":8443"}

Hosts == UNION {[1..n -> Labels] : n \in 1..MaxLabels}

\* the labels of a host joined with dots
RECURSIVE Join(_)
Join(ls) ==
    IF Len(ls) <= 1 THEN ls
    ELSE <<ls[1], ".">> \o Join(Tail(ls))

\* the origins scheme://host and scheme://host:port
WellFormedOrigins ==
    {Origin(<<sc>> \o Join(h)) : sc \in Schemes, h \in Hosts}
    \cup {Origin(<<sc>> \o Join(h) \o <<pt>>) : sc \in Schemes, h \in Hosts, pt \in Ports}

OriginHeaders ==
    {NoOrigin, Origin(<<>>)} \cup {Origin(a) : a \in ALLOWED_ORIGINS} \cup WellFormedOrigins

CorsInit ==
    /\ store = <<>>
    /\ reachable = TRUE
    /\ conn = "connecting"
    /\ proc = "running"
    /\ pending = EmptyBag
    /\ resp = NoResp
    /\ corsReq \in OriginHeaders
    /\ corsRes = NoDecision

\* cors calls the origin function with the request's Origin header
CorsDecide ==
    /\ corsRes = NoDecision
    /\ corsRes' = OriginCallback(corsReq)
    /\ UNCHANGED <<store, reachable, conn, proc, pending, resp, corsReq>>

CorsNext == CorsDecide

CorsSpec == CorsInit /\ [][CorsNext]_vars

(* ------------------------------ claims --------------------------------- *)

Protected == {"GET /expenses", "POST /expenses"}

\* this step is the completion of the suspended handler p
Completes(p) == p \in BagToSet(pending) /\ pending' = pending (-) SetToBag({p})

\* this step is the list query of p resolving into a 200
Lists(p) ==
    /\ Completes(p) /\ p.op = "find"
    /\ resp'.route = "GET /expenses" /\ resp'.status = 200 /\ resp'.user = p.user

Range(q) == {q[i] : i \in 1..Len(q)}

\* C1: the response of GET /expenses for the gate's identity A holds exactly
\* the stored expenses whose owner is A: none of another user, and all of A's,
\* whatever requests of whatever users came before or are in flight.
C1_Isolation ==
    [][\A p \in BagToSet(pending) :
          Lists(p) =>
              /\ \A i \in 1..Len(resp'.items) : resp'.items[i].user = p.user
              /\ Range(resp'.items) = {e \in Docs(store) : e.user = p.user}]_vars

\* a list answered with an expense of the caller while another user's
\* expense is stored
C1_Witness ==
    /\ resp.route = "GET /expenses" /\ resp.status = 200
    /\ Len(resp.items) >= 1
    /\ \E e \in Docs(store) : e.user # resp.user

C2_State ==
    /\ (resp.route \in Protected /\ resp.entered) =>
           (resp.gate = "passed" /\ Verify(resp.token))
    /\ (resp.route \in Protected /\ resp.err # "cors" /\ ~Verify(resp.token)) =>
           (resp.status = 401 /\ resp.gate = "rejected" /\ ~resp.entered)
    /\ \A p \in BagToSet(pending) : p.gate = "passed" /\ Verify(p.token)

\* C2: on GET /expenses and POST /expenses the handler (the query, the
\* write) is entered only after the Auth Gate succeeded for that request; a
\* request whose token is absent, forged or expired ends with 401 at the
\* gate, never enters the handler, and leaves the store as it was.
C2_AuthGateOrdering ==
    [][/\ C2_State'
       /\ (resp' # resp /\ resp'.status = 401) =>
              (store' = store /\ pending' = pending)]_vars

\* a 401 for an expired token while expenses are stored
C2_Witness ==
    /\ resp.status = 401 /\ resp.route = "POST /expenses"
    /\ resp.token.present /\ resp.token.expired
    /\ Len(store) >= 1

\* C3: the owner of every expense POST /expenses persists is the identity
\* the gate resolved for the request, whatever the body holds.
C3_OwnerAssignment ==
    [][/\ \A p \in BagToSet(pending') :
              p.op = "save" => p.doc.user = Auth(p.token).user
       /\ store' # store =>
              /\ store'[Len(store')].user = Auth(resp'.token).user
              /\ store'[Len(store')].user = resp'.user]_vars

\* an expense persisted for the caller although the body named another user
C3_Witness ==
    /\ resp.route = "POST /expenses" /\ resp.status = 201
    /\ resp.body.user # NoUser /\ resp.body.user # resp.user
    /\ resp.items[1].user = resp.user

\* a description that is not a non-empty text, or an amount that is absent
\* or that Number() maps to NaN
Rejectable(b) ==
    \/ ~(b.description.t = "str" /\ b.description.s # <<>>)
    \/ b.amount.t \in {"undef", "null"}
    \/ ToNumber(b.amount).t = "nan"

\* C4: a POST /expenses of an authenticated user whose description is
\* missing or empty, or whose amount is missing or does not coerce to a
\* number, is answered 400, issues no insert, and leaves the store unchanged.
C4_RejectedCreate ==
    [][/\ \A p \in BagToSet(pending') : p.op = "save" => ~Rejectable(p.body)
       /\ (/\ resp' # resp
           /\ resp'.route = "POST /expenses" /\ resp'.gate = "passed"
           /\ Rejectable(resp'.body)) =>
              (resp'.status = 400 /\ store' = store /\ pending' = pending)]_vars

\* a non-numeric amount refused by the schema while the store holds expenses
C4_Witness ==
    /\ resp.route = "POST /expenses" /\ resp.status = 400
    /\ resp.err = "validation"
    /\ resp.body.amount = Str(<<"a", "b", "c">>)
    /\ Len(store) >= 1

\* a number, or a string that is not blank and that Number() maps to a number
NumericAmount(v) ==
    \/ v.t = "num"
    \/ v.t = "str" /\ TrimLeft(v.s) # <<>> /\ ToNumber(v).t = "num"

\* C5: a POST /expenses of an authenticated user with a non-empty
\* description and a numeric amount (zero and negative included, sent as a
\* number or as a numeric string) is answered 201 with the one expense it
\* added, whose amount is the number the amount coerces to, unless the
\* store itself fails.
C5_AcceptedCreate ==
    (/\ resp.route = "POST /expenses" /\ resp.gate = "passed"
     /\ resp.body.description.t = "str" /\ resp.body.description.s # <<>>
     /\ NumericAmount(resp.body.amount)
     /\ resp.err # "persistence") =>
        /\ resp.status = 201
        /\ Len(resp.items) = 1
        /\ resp.items[1].amount = ToNumber(resp.body.amount)
        /\ resp.body.amount = ThreeFifty => resp.items[1].amount = Num(350)

\* C6: the sequence GET /expenses returns lists each of the caller's stored
\* expenses once and is ordered by date, newest first: no element is older
\* than the one after it.
C6_ListOrdering ==
    [][\A p \in BagToSet(pending) :
          Lists(p) =>
              /\ Len(resp'.items) = Cardinality({e \in Docs(store) : e.user = p.user})
              /\ Range(resp'.items) = {e \in Docs(store) : e.user = p.user}
              /\ \A i \in 1..(Len(resp'.items) - 1) :
                     resp'.items[i].date >= resp'.items[i + 1].date]_vars

\* a list whose first element was stored after its second and is newer
C6_Witness ==
    /\ resp.route = "GET /expenses" /\ resp.status = 200
    /\ Len(resp.items) >= 2
    /\ resp.items[1].date > resp.items[2].date
    /\ resp.items[1].id > resp.items[2].id

\* C7: when the connection cannot be established at startup the process
\* exits, and no request is handled while the connection is unestablished
\* or has failed.
C7_FailFastNoServing ==
    /\ (~reachable) ~> (proc = "exited")
    /\ [](conn # "connected" => resp = NoResp)

\* a query or an insert has resolved
StoreAnswered ==
    \/ resp.status = 201
    \/ resp.route = "GET /expenses" /\ resp.status = 200

\* C7 (amended): when the connection cannot be established at startup the
\* process exits and handles nothing afterwards; no query or insert resolves
\* before the connection is established.  The server listens from the start,
\* so requests are answered while the connection is still being attempted.
C7_FailFast ==
    /\ (~reachable) ~> (proc = "exited")
    /\ [](conn # "connected" => ~StoreAnswered)
    /\ [][proc = "exited" => (resp' = resp /\ pending' = pending /\ store' = store)]_vars

\* the process has exited on the connection error, having answered a
\* request before
C7_Witness == ~reachable /\ proc = "exited" /\ conn = "failed" /\ resp.status = 401

\* C8: on GET /expenses and POST /expenses a failure of the store operation
\* of an authenticated, well-formed request is answered 500.
C8_PersistenceFailure500 == resp.err = "persistence" => resp.status = 500

\* the labels of the host of a well-formed origin, and whether it has a port
HasPort(toks) == toks # <<>> /\ toks[Len(toks)] \in Ports
HostToks(toks) == SubSeq(toks, 2, IF HasPort(toks) THEN Len(toks) - 1 ELSE Len(toks))
HostLabels(toks) == [i \in 1..((Len(HostToks(toks)) + 1) \div 2) |-> HostToks(toks)[2 * i - 1]]

\* the host is a proper subdomain of vercel.app or of onrender.com
IsSubdomain(toks) ==
    LET ls == HostLabels(toks) IN
    /\ Len(ls) >= 3
    /\ <<ls[Len(ls) - 1], ls[Len(ls)]>> \in {<<"vercel", "app">>, <<"onrender", "com">>}

Absent(origin) == ~origin.present \/ origin.toks = <<>>

Decided == corsRes # NoDecision

\* C9: no origin is allowed; an origin of the allow-list or a subdomain of
\* vercel.app or onrender.com is allowed; every other origin is rejected
\* with an error naming it.
C9_OriginPolicy ==
    Decided =>
        /\ corsRes.allow <=>
               \/ Absent(corsReq)
               \/ corsReq.toks \in ALLOWED_ORIGINS
               \/ IsSubdomain(corsReq.toks)
        /\ ~corsRes.allow => corsRes.err = CorsMessage(corsReq.toks)
        /\ corsRes.allow => corsRes.err = NoError

\* C9 (amended): no origin is allowed; an origin of the allow-list, or a
\* subdomain of vercel.app or onrender.com written without a port, is
\* allowed; every other origin, a subdomain with a port included, is
\* rejected with an error naming it.
C9_OriginPolicySuffix ==
    Decided =>
        /\ corsRes.allow <=>
               \/ Absent(corsReq)
               \/ corsReq.toks \in ALLOWED_ORIGINS
               \/ IsSubdomain(corsReq.toks) /\ ~HasPort(corsReq.toks)
        /\ ~corsRes.allow => corsRes.err = CorsMessage(corsReq.toks)
        /\ corsRes.allow => corsRes.err = NoError

\* a subdomain of onrender.com outside the allow-list was allowed
C9_Witness ==
    /\ Decided /\ corsRes.allow
    /\ corsReq.toks \notin ALLOWED_ORIGINS
    /\ EndsWith(corsReq.toks, <<"x", ".", "onrender", ".", "com">>)

\* C10: an expense once stored is never removed or changed; GET / and
\* GET /expenses leave the store as it is, and the only change a request
\* makes is a POST /expenses answered 201 appending the one record it returns.
C10_AppendOnly ==
    [][/\ Len(store') >= Len(store)
       /\ \A i \in 1..Len(store) : store'[i] = store[i]
       /\ store' # store =>
              /\ Len(store') = Len(store) + 1
              /\ resp'.route = "POST /expenses" /\ resp'.status = 201
              /\ resp'.items = <<store'[Len(store')]>>
              /\ \A i \in 1..Len(store) : store[i].id # store'[Len(store')].id
       /\ (resp' # resp /\ resp'.route \in {"GET /", "GET /expenses"}) =>
              store' = store]_vars

\* a second expense of the same user was stored and then listed
C10_Witness ==
    /\ Len(store) >= 2 /\ store[1].user = store[2].user
    /\ resp.route = "GET /expenses" /\ resp.status = 200 /\ Len(resp.items) >= 2

====
